---- MODULE Spec2Model ----
(***************************************************************************)
(* The WebGPU demo programs of webgpu_examples as one state machine.       *)
(*                                                                         *)
(* Every demo is a script: run() acquires the device, builds pipelines,    *)
(* allocates buffers / textures / bind groups, calls draw(), and registers *)
(* event listeners.  A handler (a segment of run() between two awaits, a   *)
(* frame callback, a resize or input listener) runs to completion; it is   *)
(* translated into the sequence of WebGPU calls it issues, and Exec        *)
(* applies that sequence to the device state.                              *)
(***************************************************************************)
EXTENDS Integers, Sequences, FiniteSets, TLC

\* ------------------------------------------------------------------------
\* Bounds of the model
\* ------------------------------------------------------------------------
\* number of draw() calls (startup + resize / input handlers) explored
MaxDraws == 3
\* clientWidth and clientHeight of the canvas range over 1..MaxClient (and differ)
MaxClient == 2
\* window.devicePixelRatio ranges over 1..MaxDpr
MaxDpr == 2
\* handler executions are stamped 1..StampMod, cyclically
StampMod == 2
\* draw() calls explored in the sprite demo, whose frame counter has period 90
MaxSpriteDraws == 1
\* draw() calls explored in the specification of the sprite demo alone
MaxSpriteLoops == 2
\* the mesh arrays hold 1..MaxMesh elements
MaxMesh == 1
\* the decoded image and the 2d canvas are 1..MaxImage pixels wide and high
MaxImage == 1

\* ------------------------------------------------------------------------
\* Program constants
\* ------------------------------------------------------------------------
NUM == 500
NUM_shadow == 30
kMaxNumLights == 1024
lightDataStride == 8
BYTES_PER_ELEMENT == 4
matrixSize == 64
twoCubesOffset == 256
xCount == 4
yCount == 4
shadowMapSize == 2048

Demos == {"base_lighting", "base_lighting2", "cube", "multisample",
          "shadowMapping", "cube_canvasTexture", "two_cubes",
          "cube_imageTexture", "deferredRendering", "cube_spriteTexture",
          "color_triangle", "instanced_cubes"}

\* ------------------------------------------------------------------------
\* WebGPU calls
\* ------------------------------------------------------------------------
\* A resource is named <<id, name>>: id 0 for objects made once by run(),
\* id n for objects made by the n-th call of draw() (or the n-th resize).
Key(id, name) == <<id, name>>
CanvasTex == Key(0, "canvasTexture")

Call(o, r, x, y) == [op |-> o, res |-> r, x |-> x, y |-> y]
CreateBuffer(k, size) == Call("createBuffer", k, size, 0)
CreateTexture(k, w, h) == Call("createTexture", k, w, h)
CreateSampler(k) == Call("createSampler", k, 0, 0)
Destroy(k) == Call("destroy", k, 0, 0)
CreatePipeline(k) == Call("createPipeline", k, 0, 0)
\* entries[i] is the resource at binding i-1
CreateBindGroup(k, entries) == Call("createBindGroup", k, entries, 0)
WriteBuffer(k, off, len) == Call("writeBuffer", k, off, len)
CopyExternalImageToTexture(k) == Call("copyExternalImageToTexture", k, 0, 0)
Submit == Call("submit", CanvasTex, 0, 0)
RequestAnimationFrame(id) == Call("requestAnimationFrame", Key(id, "frame"), 0, 0)

\* One encoded pass: pipeline, the bind groups of its setBindGroup calls in
\* call order (groups[i] is set at index slots[i]), attachments written,
\* vertex / index buffers, and the draws <<count name, instances, first>>.
PassAt(name, pipe, slots, groups, attach, vbufs, draws) ==
    Call("pass", CanvasTex,
         [name |-> name, pipe |-> pipe, slots |-> slots, groups |-> groups,
          attach |-> attach, vbufs |-> vbufs, draws |-> draws], 0)

\* a pass that sets its bind groups at the indices 0, 1, ...
Pass(name, pipe, groups, attach, vbufs, draws) ==
    PassAt(name, pipe, [i \in 1..Len(groups) |-> i - 1], groups,
           attach, vbufs, draws)

Range(s) == {s[i] : i \in 1..Len(s)}

Configure == Call("configure", CanvasTex, 0, 0)

\* ------------------------------------------------------------------------
\* The device: what the calls of a handler do to it
\* ------------------------------------------------------------------------
NoCmd == [stamp |-> 0, passes |-> <<>>, missing |-> {}]

EmptyDevice ==
    [bufs |-> <<>>,        \* GPUBuffer -> size in bytes
     texs |-> <<>>,        \* GPUTexture -> <<width, height>>
     dead |-> {},          \* textures on which destroy() was called
     pipes |-> {},         \* pipelines
     groups |-> <<>>,      \* GPUBindGroup -> entries
     samplers |-> {},
     configured |-> FALSE, \* context.configure() was called
     data |-> <<>>,        \* buffer / texture -> stamp of its last writer
     enc |-> <<>>,         \* passes encoded and not yet submitted
     cmd |-> NoCmd,        \* the command buffer submitted last
     nsubmit |-> 0,        \* queue.submit calls of the running handler
     pending |-> <<>>]     \* callbacks registered by requestAnimationFrame

DataOf(st, k) == IF k \in DOMAIN st.data THEN st.data[k] ELSE 0

Exists(st, k) ==
    \/ k \in DOMAIN st.bufs
    \/ k \in DOMAIN st.texs
    \/ k \in st.pipes
    \/ k \in DOMAIN st.groups
    \/ k \in st.samplers
    \/ k = CanvasTex /\ st.configured

\* the resources bound by the bind groups of a pass
Bound(st, p) ==
    UNION {IF p.groups[i] \in DOMAIN st.groups
           THEN Range(st.groups[p.groups[i]]) ELSE {} : i \in 1..Len(p.groups)}

\* everything a pass names
Uses(st, p) == {p.pipe} \cup Range(p.groups) \cup Bound(st, p)
               \cup Range(p.attach) \cup Range(p.vbufs)

\* The light-update compute shader rewrites the lights storage buffer at
\* binding 0 of its bind group; every other pass writes its attachments only.
StorageWrites(st, p) ==
    IF p.name = "lightPass" /\ Len(p.groups) > 0 /\ p.groups[1] \in DOMAIN st.groups
    THEN {st.groups[p.groups[1]][1]} ELSE {}

\* Executing the encoded passes in order: each pass observes the data of what
\* it reads as left by queue writes and by the passes before it.
RECURSIVE RunPasses(_, _, _, _)
RunPasses(st, passes, stamp, done) ==
    IF passes = <<>> THEN [st |-> st, passes |-> done]
    ELSE LET p == Head(passes)
             reads == (Bound(st, p) \cup Range(p.vbufs))
             saw == [k \in reads |-> DataOf(st, k)]
             writes == Range(p.attach) \cup StorageWrites(st, p)
             st2 == [st EXCEPT !.data = [k \in writes |-> stamp] @@ @]
             rec == [name |-> p.name, pipe |-> p.pipe, slots |-> p.slots,
                     groups |-> p.groups,
                     attach |-> p.attach, vbufs |-> p.vbufs, draws |-> p.draws,
                     target |-> p.target, saw |-> saw]
         IN RunPasses(st2, Tail(passes), stamp, Append(done, rec))

QueueSubmit(st, stamp) ==
    LET missing == UNION {{k \in Uses(st, st.enc[i]) : ~Exists(st, k)}
                          : i \in 1..Len(st.enc)}
        r == RunPasses(st, st.enc, stamp, <<>>)
    IN [r.st EXCEPT !.cmd = [stamp |-> stamp, passes |-> r.passes,
                             missing |-> missing],
                    !.enc = <<>>,
                    !.nsubmit = @ + 1]

Step(st, c, stamp, cv) ==
    CASE c.op = "createBuffer" -> [st EXCEPT !.bufs = (c.res :> c.x) @@ @]
      [] c.op = "createTexture" ->
            [st EXCEPT !.texs = (c.res :> <<c.x, c.y>>) @@ @]
      [] c.op = "createSampler" -> [st EXCEPT !.samplers = @ \cup {c.res}]
      [] c.op = "destroy" -> [st EXCEPT !.dead = @ \cup {c.res}]
      [] c.op = "createPipeline" -> [st EXCEPT !.pipes = @ \cup {c.res}]
      [] c.op = "createBindGroup" -> [st EXCEPT !.groups = (c.res :> c.x) @@ @]
      [] c.op = "configure" -> [st EXCEPT !.configured = TRUE]
      [] c.op \in {"writeBuffer", "copyExternalImageToTexture"} ->
            [st EXCEPT !.data = (c.res :> stamp) @@ @]
      [] c.op = "pass" ->
            [st EXCEPT !.enc = Append(@, [name |-> c.x.name, pipe |-> c.x.pipe,
                          slots |-> c.x.slots,
                          groups |-> c.x.groups, attach |-> c.x.attach,
                          vbufs |-> c.x.vbufs, draws |-> c.x.draws,
                          target |-> cv])]
      [] c.op = "submit" -> QueueSubmit(st, stamp)
      [] c.op = "requestAnimationFrame" ->
            [st EXCEPT !.pending = Append(@, c.res[1])]

\* the device after the first n calls of a handler
RECURSIVE ExecPrefix(_, _, _, _, _)
ExecPrefix(calls, n, st, stamp, cv) ==
    IF n = 0 THEN st
    ELSE Step(ExecPrefix(calls, n - 1, st, stamp, cv), calls[n], stamp, cv)

Exec(calls, st, stamp, cv) == ExecPrefix(calls, Len(calls), st, stamp, cv)

\* ------------------------------------------------------------------------
\* State
\* ------------------------------------------------------------------------
VARIABLES
    demo,             \* which script the page runs
    env,              \* the browser: gpu, adapter, canvas, ctx2d, mesh, image
    pc,               \* position of run()
    error,            \* message of the error run() threw, or "none"
    requested,        \* navigator.gpu.requestAdapter was called
    dev,              \* the device state (see EmptyDevice)
    canvas,           \* <<canvas.width, canvas.height>>, <<0, 0>> until set
    client,           \* <<canvas.clientWidth, canvas.clientHeight>>
    dpr,              \* window.devicePixelRatio
    presentationSize, \* the object initWebGPU returns to run()
    projAspect,       \* <<width, height>> updateCamera() last divided
    resourcesObj,     \* the mutable fields of the object createResources returns
    settings,         \* deferred rendering: [mode, numLights]
    uvOffset,         \* sprite: <<column in thirds, row in halves>>
    count,            \* sprite: frame counter of each draw() closure, mod 90
    nDraw,            \* number of draw() calls so far
    loading,          \* image texture: draw() calls waiting for fetch
    current,          \* frame callbacks still to run in this animation frame
    submitsThisFrame, \* queue.submit calls by the callbacks of this frame
    stamp,            \* stamp of the handler that ran last
    listeners,        \* event listeners registered on window / inputs
    sliders,          \* base_lighting2: value of each slider, <<>> until moved
    ambient,          \* base_lighting2: ambient[0] of each draw() closure, in tenths
    pointLight,       \* base_lighting2: pointLight[5] of each draw() closure
    gpuLight,         \* base_lighting2: <<ambient, radius>> last written to the buffers
    lastAct,          \* kind of the handler that ran last
    lastCalls         \* the WebGPU calls it issued, in order

vars == <<demo, env, pc, error, requested, dev, canvas, client, dpr,
          presentationSize, projAspect, resourcesObj, settings, uvOffset,
          count, nDraw, loading, current, submitsThisFrame, stamp, listeners,
          sliders, ambient, pointLight, gpuLight, lastAct, lastCalls>>

K0(name) == Key(0, name)
Pipeline == K0("pipeline")

\* byteLength of the mesh arrays (meshes/cube, util/box, util/sphere)
ByteLength == env.mesh * BYTES_PER_ELEMENT
\* a gl-matrix mat4 is a Float32Array of 16 elements
mat4ByteLength == 16 * BYTES_PER_ELEMENT
\* a gl-matrix vec3 is a Float32Array of 3 elements
vec3ByteLength == 3 * BYTES_PER_ELEMENT
\* getProjectionMatrix (util/math) returns the 4x4 matrix the projection
\* buffer is declared to store
getProjectionMatrixByteLength == 16 * BYTES_PER_ELEMENT

MeshBuffers == <<K0("boxBuffer.vertex"), K0("boxBuffer.index"),
                 K0("sphereBuffer.vertex"), K0("sphereBuffer.index")>>

\* ------------------------------------------------------------------------
\* initPipeline of each demo
\* ------------------------------------------------------------------------
initPipeline_single == <<CreatePipeline(Pipeline)>>

initPipeline_shadowMapping ==
    <<CreatePipeline(K0("shadowPipeline")), CreatePipeline(K0("renderPipeline"))>>

initPipeline_deferredRendering ==
    <<CreatePipeline(K0("writeGBuffersPipeline")),
      CreatePipeline(K0("gBuffersDebugViewPipeline")),
      CreatePipeline(K0("deferredRenderingPipeline")),
      CreatePipeline(K0("lightUpdateComputePipeline"))>>

initPipeline_color_triangle ==
    <<CreatePipeline(Pipeline),
      CreateBuffer(K0("colorBuffer"), 4 * 4),
      WriteBuffer(K0("colorBuffer"), 0, 4 * BYTES_PER_ELEMENT),
      CreateBindGroup(K0("uniformGroup"), <<K0("colorBuffer")>>)>>

initPipeline(d) ==
    CASE d = "shadowMapping" -> initPipeline_shadowMapping
      [] d = "deferredRendering" -> initPipeline_deferredRendering
      [] d = "color_triangle" -> initPipeline_color_triangle
      [] OTHER -> initPipeline_single

\* ------------------------------------------------------------------------
\* createResources of the demos that have one
\* ------------------------------------------------------------------------
createMeshBuffers ==
    <<CreateBuffer(MeshBuffers[1], ByteLength),
      CreateBuffer(MeshBuffers[2], ByteLength),
      CreateBuffer(MeshBuffers[3], ByteLength),
      CreateBuffer(MeshBuffers[4], ByteLength),
      WriteBuffer(MeshBuffers[1], 0, ByteLength),
      WriteBuffer(MeshBuffers[2], 0, ByteLength),
      WriteBuffer(MeshBuffers[3], 0, ByteLength),
      WriteBuffer(MeshBuffers[4], 0, ByteLength)>>

createResources_base_lighting ==
    <<CreateTexture(K0("depthTexture"), client[1] * dpr, client[2] * dpr)>>
    \o createMeshBuffers \o
    <<CreateBuffer(K0("modelViewBuffer"), 4 * 4 * 4 * NUM),
      CreateBuffer(K0("projectionBuffer"), 4 * 4 * 4),
      CreateBuffer(K0("colorBuffer"), 4 * 4 * NUM),
      CreateBindGroup(K0("vsGroup"), <<K0("modelViewBuffer"),
                      K0("projectionBuffer"), K0("colorBuffer")>>)>>

createResources_base_lighting2 ==
    createResources_base_lighting \o
    <<CreateBuffer(K0("ambientBuffer"), 1 * 4),
      CreateBuffer(K0("pointLightBuffer"), 8 * 4),
      CreateBindGroup(K0("lightGroup"),
                      <<K0("ambientBuffer"), K0("pointLightBuffer")>>)>>

\* createResources_shadowMapping whose fragment bind group samples the
\* render depth texture instead of the shadow map
createResources_shadowMapping_otherMap ==
    createMeshBuffers \o
    <<CreateTexture(K0("shadowDepthTexture"), shadowMapSize, shadowMapSize),
      CreateTexture(K0("renderDepthTexture"), client[1] * dpr, client[2] * dpr),
      CreateBuffer(K0("modelViewBuffer"), 4 * 4 * 4 * NUM_shadow),
      CreateBuffer(K0("cameraProjectionBuffer"), 4 * 4 * 4),
      CreateBuffer(K0("lightProjectionBuffer"), 4 * 4 * 4),
      CreateBuffer(K0("colorBuffer"), 4 * 4 * NUM_shadow),
      CreateBuffer(K0("lightBuffer"), 4 * 4),
      CreateBindGroup(K0("vsGroup"),
          <<K0("modelViewBuffer"), K0("cameraProjectionBuffer"),
            K0("lightProjectionBuffer"), K0("colorBuffer")>>),
      CreateSampler(K0("sampler")),
      CreateBindGroup(K0("fsGroup"),
          <<K0("lightBuffer"), K0("renderDepthTexture"), K0("sampler")>>),
      CreateBindGroup(K0("shadowGroup"),
          <<K0("modelViewBuffer"), K0("lightProjectionBuffer")>>)>>

createResources_shadowMapping ==
    createMeshBuffers \o
    <<CreateTexture(K0("shadowDepthTexture"), shadowMapSize, shadowMapSize),
      CreateTexture(K0("renderDepthTexture"), client[1] * dpr, client[2] * dpr),
      CreateBuffer(K0("modelViewBuffer"), 4 * 4 * 4 * NUM_shadow),
      CreateBuffer(K0("cameraProjectionBuffer"), 4 * 4 * 4),
      CreateBuffer(K0("lightProjectionBuffer"), 4 * 4 * 4),
      CreateBuffer(K0("colorBuffer"), 4 * 4 * NUM_shadow),
      CreateBuffer(K0("lightBuffer"), 4 * 4),
      CreateBindGroup(K0("vsGroup"),
          <<K0("modelViewBuffer"), K0("cameraProjectionBuffer"),
            K0("lightProjectionBuffer"), K0("colorBuffer")>>),
      CreateSampler(K0("sampler")),
      CreateBindGroup(K0("fsGroup"),
          <<K0("lightBuffer"), K0("shadowDepthTexture"), K0("sampler")>>),
      CreateBindGroup(K0("shadowGroup"),
          <<K0("modelViewBuffer"), K0("lightProjectionBuffer")>>)>>

createResources_cube_canvasTexture ==
    <<CreateBuffer(K0("verticesBuffer"), ByteLength),
      CreateTexture(K0("depthTexture"), client[1] * dpr, client[2] * dpr),
      CreateBuffer(K0("uniformBuffer"), 4 * 16),
      CreateBindGroup(K0("uniformGroup"), <<K0("uniformBuffer")>>),
      CreateTexture(K0("cavasTexture"), env.image[1], env.image[2]),
      CreateSampler(K0("sampler")),
      CreateBindGroup(K0("textureGroup"), <<K0("sampler"), K0("cavasTexture")>>)>>

createResources_cube_spriteTexture ==
    <<CreateBuffer(K0("verticesBuffer"), ByteLength),
      CreateTexture(K0("depthTexture"), client[1] * dpr, client[2] * dpr),
      CreateBuffer(K0("uniformBuffer"), 4 * 16),
      CreateBindGroup(K0("uniformGroup"), <<K0("uniformBuffer")>>),
      CreateTexture(K0("texture"), env.image[1], env.image[2]),
      CopyExternalImageToTexture(K0("texture")),
      CreateSampler(K0("sampler")),
      CreateBuffer(K0("uvBuffer"), 4 * 4),
      WriteBuffer(K0("uvBuffer"), 0, 4 * BYTES_PER_ELEMENT),
      CreateBindGroup(K0("textureGroup"),
                      <<K0("sampler"), K0("texture"), K0("uvBuffer")>>)>>

\* createResources_deferredRendering whose compute bind group gets a lights
\* buffer of its own
createResources_deferredRendering_unshared ==
    <<CreateTexture(K0("depthTexture"), client[1] * dpr, client[2] * dpr),
      CreateBuffer(K0("dragonVertexBuffer"), env.mesh * 8 * BYTES_PER_ELEMENT),
      CreateBuffer(K0("dragonIndexBuffer"), env.mesh * 3 * 2),
      CreateTexture(K0("gBufferTexture2DFloat16"), client[1] * dpr, client[2] * dpr),
      CreateTexture(K0("gBufferTextureAlbedo"), client[1] * dpr, client[2] * dpr),
      CreateBindGroup(K0("gBufferTexturesBindGroup"),
          <<K0("gBufferTexture2DFloat16"), K0("gBufferTextureAlbedo"),
            K0("depthTexture")>>),
      CreateBuffer(K0("modelUniformBuffer"), 4 * 16 * 2),
      CreateBuffer(K0("cameraUniformBuffer"), 4 * 16 * 2),
      CreateBindGroup(K0("sceneUniformBindGroup"),
          <<K0("modelUniformBuffer"), K0("cameraUniformBuffer")>>),
      CreateBuffer(K0("lightsBuffer"),
                   BYTES_PER_ELEMENT * lightDataStride * kMaxNumLights),
      CreateBuffer(K0("computeLightsBuffer"),
                   BYTES_PER_ELEMENT * lightDataStride * kMaxNumLights),
      CreateBuffer(K0("configUniformBuffer"), BYTES_PER_ELEMENT),
      CreateBuffer(K0("lightExtentBuffer"), 4 * 8),
      CreateBindGroup(K0("lightsBufferBindGroup"),
          <<K0("lightsBuffer"), K0("configUniformBuffer"),
            K0("cameraUniformBuffer")>>),
      CreateBindGroup(K0("lightsBufferComputeBindGroup"),
          <<K0("computeLightsBuffer"), K0("configUniformBuffer"),
            K0("lightExtentBuffer")>>)>>

createResources_deferredRendering ==
    <<CreateTexture(K0("depthTexture"), client[1] * dpr, client[2] * dpr),
      CreateBuffer(K0("dragonVertexBuffer"), env.mesh * 8 * BYTES_PER_ELEMENT),
      CreateBuffer(K0("dragonIndexBuffer"), env.mesh * 3 * 2),
      CreateTexture(K0("gBufferTexture2DFloat16"), client[1] * dpr, client[2] * dpr),
      CreateTexture(K0("gBufferTextureAlbedo"), client[1] * dpr, client[2] * dpr),
      CreateBindGroup(K0("gBufferTexturesBindGroup"),
          <<K0("gBufferTexture2DFloat16"), K0("gBufferTextureAlbedo"),
            K0("depthTexture")>>),
      CreateBuffer(K0("modelUniformBuffer"), 4 * 16 * 2),
      CreateBuffer(K0("cameraUniformBuffer"), 4 * 16 * 2),
      CreateBindGroup(K0("sceneUniformBindGroup"),
          <<K0("modelUniformBuffer"), K0("cameraUniformBuffer")>>),
      CreateBuffer(K0("lightsBuffer"),
                   BYTES_PER_ELEMENT * lightDataStride * kMaxNumLights),
      CreateBuffer(K0("configUniformBuffer"), BYTES_PER_ELEMENT),
      CreateBuffer(K0("lightExtentBuffer"), 4 * 8),
      CreateBindGroup(K0("lightsBufferBindGroup"),
          <<K0("lightsBuffer"), K0("configUniformBuffer"),
            K0("cameraUniformBuffer")>>),
      CreateBindGroup(K0("lightsBufferComputeBindGroup"),
          <<K0("lightsBuffer"), K0("configUniformBuffer"),
            K0("lightExtentBuffer")>>)>>

HasCreateResources(d) ==
    d \in {"base_lighting", "base_lighting2", "shadowMapping",
           "cube_canvasTexture", "cube_spriteTexture", "deferredRendering"}

createResources(d) ==
    CASE d = "base_lighting" -> createResources_base_lighting
      [] d = "base_lighting2" -> createResources_base_lighting2
      [] d = "shadowMapping" -> createResources_shadowMapping
      [] d = "cube_canvasTexture" -> createResources_cube_canvasTexture
      [] d = "cube_spriteTexture" -> createResources_cube_spriteTexture
      [] d = "deferredRendering" -> createResources_deferredRendering
      [] OTHER -> <<>>

\* ------------------------------------------------------------------------
\* frame(): the callback each draw() closure registers
\* ------------------------------------------------------------------------
CubeDraw == <<"cubeVertexCount", 1, 0>>

frame_base_lighting(id) ==
    <<Pass("renderPass", Pipeline, <<K0("vsGroup")>>,
           <<CanvasTex, K0("depthTexture")>>, MeshBuffers,
           <<<<"box.indexCount", NUM \div 2, 0>>,
             <<"sphere.indexCount", NUM \div 2, NUM \div 2>>>>),
      Submit,
      RequestAnimationFrame(id)>>

frame_base_lighting2(id) ==
    <<WriteBuffer(K0("ambientBuffer"), 0, 1 * BYTES_PER_ELEMENT),
      WriteBuffer(K0("pointLightBuffer"), 0, 8 * BYTES_PER_ELEMENT),
      WriteBuffer(K0("colorBuffer"), 0, NUM * 4 * BYTES_PER_ELEMENT),
      WriteBuffer(K0("modelViewBuffer"), 0, NUM * 4 * 4 * BYTES_PER_ELEMENT),
      Pass("renderPass", Pipeline, <<K0("vsGroup"), K0("lightGroup")>>,
           <<CanvasTex, K0("depthTexture")>>, MeshBuffers,
           <<<<"box.indexCount", NUM \div 2, 0>>,
             <<"sphere.indexCount", NUM \div 2, NUM \div 2>>>>),
      Submit,
      RequestAnimationFrame(id)>>

\* frame_cube with a depth texture allocated on every frame
frame_cube_allocating(id) ==
    <<CreateTexture(Key(id, "frameDepthTexture"), canvas[1], canvas[2]),
      WriteBuffer(Key(id, "uniformBuffer"), 0, mat4ByteLength),
      Pass("renderPass", Pipeline, <<Key(id, "uniformBindGroup")>>,
           <<CanvasTex, Key(id, "frameDepthTexture")>>,
           <<Key(id, "cubeVerticesBuffer")>>, <<CubeDraw>>),
      Submit,
      RequestAnimationFrame(id)>>

frame_cube(id) ==
    <<WriteBuffer(Key(id, "uniformBuffer"), 0, mat4ByteLength),
      Pass("renderPass", Pipeline, <<Key(id, "uniformBindGroup")>>,
           <<CanvasTex, Key(id, "depthTexture")>>,
           <<Key(id, "cubeVerticesBuffer")>>, <<CubeDraw>>),
      Submit,
      RequestAnimationFrame(id)>>

\* both bind groups are set at index 0, one before each draw
frame_two_cubes(id) ==
    <<WriteBuffer(Key(id, "uniformBuffer"), 0, mat4ByteLength),
      WriteBuffer(Key(id, "uniformBuffer"), twoCubesOffset, mat4ByteLength),
      PassAt("renderPass", Pipeline, <<0, 0>>,
           <<Key(id, "uniformBindGroup"), Key(id, "uniformBindGroup2")>>,
           <<CanvasTex, Key(id, "depthTexture")>>,
           <<Key(id, "cubeVerticesBuffer")>>, <<CubeDraw, CubeDraw>>),
      Submit,
      RequestAnimationFrame(id)>>

\* the one bind group is set at index 0 before each of the two draws
frame_instanced_cubes(id) ==
    <<WriteBuffer(Key(id, "uniformBuffer"), 0,
                  16 * (xCount * yCount) * BYTES_PER_ELEMENT),
      PassAt("renderPass", Pipeline, <<0, 0>>,
           <<Key(id, "uniformBindGroup"), Key(id, "uniformBindGroup")>>,
           <<CanvasTex, Key(id, "depthTexture")>>,
           <<Key(id, "cubeVerticesBuffer")>>,
           <<CubeDraw, <<"cubeVertexCount", xCount * yCount, 0>>>>),
      Submit,
      RequestAnimationFrame(id)>>

frame_cube_imageTexture(id) ==
    <<WriteBuffer(Key(id, "uniformBuffer"), 0, mat4ByteLength),
      Pass("renderPass", Pipeline,
           <<Key(id, "uniformBindGroup"), Key(id, "textureGroup")>>,
           <<CanvasTex, Key(id, "depthTexture")>>,
           <<Key(id, "cubeVerticesBuffer")>>, <<CubeDraw>>),
      Submit,
      RequestAnimationFrame(id)>>

\* frame_cube_canvasTexture that copies the whiteboard after submitting
frame_cube_canvasTexture_lateCopy(id) ==
    <<WriteBuffer(K0("uniformBuffer"), 0, mat4ByteLength),
      Pass("renderPass", Pipeline, <<K0("uniformGroup"), K0("textureGroup")>>,
           <<CanvasTex, K0("depthTexture")>>,
           <<K0("verticesBuffer")>>, <<CubeDraw>>),
      Submit,
      CopyExternalImageToTexture(K0("cavasTexture")),
      RequestAnimationFrame(id)>>

frame_cube_canvasTexture(id) ==
    <<WriteBuffer(K0("uniformBuffer"), 0, mat4ByteLength),
      CopyExternalImageToTexture(K0("cavasTexture")),
      Pass("renderPass", Pipeline, <<K0("uniformGroup"), K0("textureGroup")>>,
           <<CanvasTex, K0("depthTexture")>>,
           <<K0("verticesBuffer")>>, <<CubeDraw>>),
      Submit,
      RequestAnimationFrame(id)>>

\* ++count of the closure, kept modulo 90 (only count % 30 and count % 90
\* are ever read); a closure that has not run yet has count 0
CountOf(id) == IF id \in DOMAIN count THEN count[id] ELSE 0
NextCount(id) == (CountOf(id) + 1) % 90

\* uvOffset after the frame: the column steps by 1/3 and wraps after 2/3,
\* the row steps by 1/2 and wraps after 1/2
NextUvOffset(id) ==
    IF NextCount(id) % 30 = 0
    THEN <<IF uvOffset[1] >= 2 THEN 0 ELSE uvOffset[1] + 1,
           IF NextCount(id) % 90 = 0
           THEN (IF uvOffset[2] >= 1 THEN 0 ELSE uvOffset[2] + 1)
           ELSE uvOffset[2]>>
    ELSE uvOffset

frame_cube_spriteTexture(id) ==
    (IF NextCount(id) % 30 = 0
     THEN <<WriteBuffer(K0("uvBuffer"), 0, 4 * BYTES_PER_ELEMENT)>>
     ELSE <<>>) \o
    <<WriteBuffer(K0("uniformBuffer"), 0, mat4ByteLength),
      Pass("renderPass", Pipeline, <<K0("uniformGroup"), K0("textureGroup")>>,
           <<CanvasTex, K0("depthTexture")>>,
           <<K0("verticesBuffer")>>, <<CubeDraw>>),
      Submit,
      RequestAnimationFrame(id)>>

ShadowDraws ==
    <<<<"box.indexCount", 2, 0>>,
      <<"sphere.indexCount", NUM_shadow - 2, NUM_shadow \div 2>>>>

\* frame_shadowMapping with the depth view read once, when draw() is called,
\* instead of in every frame
frame_shadowMapping_capturedView(id) ==
    <<WriteBuffer(K0("lightProjectionBuffer"), 0, mat4ByteLength),
      WriteBuffer(K0("lightBuffer"), 0, vec3ByteLength),
      WriteBuffer(K0("modelViewBuffer"), 0, NUM_shadow * 4 * 4 * BYTES_PER_ELEMENT),
      Pass("shadowPass", K0("shadowPipeline"), <<K0("shadowGroup")>>,
           <<K0("shadowDepthTexture")>>, MeshBuffers, ShadowDraws),
      Pass("renderPass", K0("renderPipeline"), <<K0("vsGroup"), K0("fsGroup")>>,
           <<CanvasTex, Key(IF id = 1 THEN 0 ELSE id, "renderDepthTexture")>>,
           MeshBuffers, ShadowDraws),
      Submit,
      RequestAnimationFrame(id)>>

frame_shadowMapping(id) ==
    <<WriteBuffer(K0("lightProjectionBuffer"), 0, mat4ByteLength),
      WriteBuffer(K0("lightBuffer"), 0, vec3ByteLength),
      WriteBuffer(K0("modelViewBuffer"), 0, NUM_shadow * 4 * 4 * BYTES_PER_ELEMENT),
      Pass("shadowPass", K0("shadowPipeline"), <<K0("shadowGroup")>>,
           <<K0("shadowDepthTexture")>>, MeshBuffers, ShadowDraws),
      Pass("renderPass", K0("renderPipeline"), <<K0("vsGroup"), K0("fsGroup")>>,
           <<CanvasTex, resourcesObj.renderDepthView>>, MeshBuffers, ShadowDraws),
      Submit,
      RequestAnimationFrame(id)>>

FullScreenQuad == <<"6", 1, 0>>

\* frame_deferredRendering that leaves the light update out of the
\* G-buffer view, which does not read the lights
frame_deferredRendering_lazyLights(id) ==
    <<WriteBuffer(K0("cameraUniformBuffer"), 0, mat4ByteLength),
      WriteBuffer(K0("cameraUniformBuffer"), 64, mat4ByteLength),
      Pass("gBufferPass", K0("writeGBuffersPipeline"),
           <<K0("sceneUniformBindGroup")>>,
           <<K0("gBufferTexture2DFloat16"), K0("gBufferTextureAlbedo"),
             K0("depthTexture")>>,
           <<K0("dragonVertexBuffer"), K0("dragonIndexBuffer")>>,
           <<<<"mesh.triangles.length * 3", 1, 0>>>>)>> \o
    (IF settings.mode = "gBuffers view"
     THEN <<Pass("debugViewPass", K0("gBuffersDebugViewPipeline"),
                 <<K0("gBufferTexturesBindGroup")>>,
                 <<CanvasTex>>, <<>>, <<FullScreenQuad>>)>>
     ELSE <<Pass("lightPass", K0("lightUpdateComputePipeline"),
                 <<K0("lightsBufferComputeBindGroup")>>, <<>>, <<>>, <<>>),
            Pass("deferredRenderingPass", K0("deferredRenderingPipeline"),
                 <<K0("gBufferTexturesBindGroup"), K0("lightsBufferBindGroup")>>,
                 <<CanvasTex>>, <<>>, <<FullScreenQuad>>)>>) \o
    <<Submit,
      RequestAnimationFrame(id)>>

\* frame_deferredRendering that ends with the composite pass whatever the
\* mode is
frame_deferredRendering_compositeOnly(id) ==
    <<WriteBuffer(K0("cameraUniformBuffer"), 0, mat4ByteLength),
      WriteBuffer(K0("cameraUniformBuffer"), 64, mat4ByteLength),
      Pass("gBufferPass", K0("writeGBuffersPipeline"),
           <<K0("sceneUniformBindGroup")>>,
           <<K0("gBufferTexture2DFloat16"), K0("gBufferTextureAlbedo"),
             K0("depthTexture")>>,
           <<K0("dragonVertexBuffer"), K0("dragonIndexBuffer")>>,
           <<<<"mesh.triangles.length * 3", 1, 0>>>>),
      Pass("lightPass", K0("lightUpdateComputePipeline"),
           <<K0("lightsBufferComputeBindGroup")>>, <<>>, <<>>, <<>>),
      Pass("deferredRenderingPass", K0("deferredRenderingPipeline"),
           <<K0("gBufferTexturesBindGroup"), K0("lightsBufferBindGroup")>>,
           <<CanvasTex>>, <<>>, <<FullScreenQuad>>),
      Submit,
      RequestAnimationFrame(id)>>

frame_deferredRendering(id) ==
    <<WriteBuffer(K0("cameraUniformBuffer"), 0, mat4ByteLength),
      WriteBuffer(K0("cameraUniformBuffer"), 64, mat4ByteLength),
      Pass("gBufferPass", K0("writeGBuffersPipeline"),
           <<K0("sceneUniformBindGroup")>>,
           <<K0("gBufferTexture2DFloat16"), K0("gBufferTextureAlbedo"),
             K0("depthTexture")>>,
           <<K0("dragonVertexBuffer"), K0("dragonIndexBuffer")>>,
           <<<<"mesh.triangles.length * 3", 1, 0>>>>),
      Pass("lightPass", K0("lightUpdateComputePipeline"),
           <<K0("lightsBufferComputeBindGroup")>>, <<>>, <<>>, <<>>),
      IF settings.mode = "gBuffers view"
      THEN Pass("debugViewPass", K0("gBuffersDebugViewPipeline"),
                <<K0("gBufferTexturesBindGroup")>>,
                <<CanvasTex>>, <<>>, <<FullScreenQuad>>)
      ELSE Pass("deferredRenderingPass", K0("deferredRenderingPipeline"),
                <<K0("gBufferTexturesBindGroup"), K0("lightsBufferBindGroup")>>,
                <<CanvasTex>>, <<>>, <<FullScreenQuad>>),
      Submit,
      RequestAnimationFrame(id)>>

\* frame callbacks that do not register themselves again
frame_once(d, id) ==
    LET calls == CASE d = "base_lighting" -> frame_base_lighting(id)
                   [] d = "base_lighting2" -> frame_base_lighting2(id)
                   [] d = "cube" -> frame_cube(id)
                   [] d = "two_cubes" -> frame_two_cubes(id)
                   [] d = "instanced_cubes" -> frame_instanced_cubes(id)
                   [] d = "cube_imageTexture" -> frame_cube_imageTexture(id)
                   [] d = "cube_canvasTexture" -> frame_cube_canvasTexture(id)
                   [] d = "cube_spriteTexture" -> frame_cube_spriteTexture(id)
                   [] d = "shadowMapping" -> frame_shadowMapping(id)
                   [] d = "deferredRendering" -> frame_deferredRendering(id)
                   [] OTHER -> <<>>
    IN SubSeq(calls, 1, Len(calls) - 1)

frame(d, id) ==
    CASE d = "base_lighting" -> frame_base_lighting(id)
      [] d = "base_lighting2" -> frame_base_lighting2(id)
      [] d = "cube" -> frame_cube(id)
      [] d = "two_cubes" -> frame_two_cubes(id)
      [] d = "instanced_cubes" -> frame_instanced_cubes(id)
      [] d = "cube_imageTexture" -> frame_cube_imageTexture(id)
      [] d = "cube_canvasTexture" -> frame_cube_canvasTexture(id)
      [] d = "cube_spriteTexture" -> frame_cube_spriteTexture(id)
      [] d = "shadowMapping" -> frame_shadowMapping(id)
      [] d = "deferredRendering" -> frame_deferredRendering(id)
      [] OTHER -> <<>>

\* ------------------------------------------------------------------------
\* draw(): called by run() and again by the resize / input listeners.
\* cw, ch are the canvas's clientWidth and clientHeight at the call, cvs its
\* width and height.
\* ------------------------------------------------------------------------
draw_base_lighting(id, cw, ch, cvs) ==
    <<WriteBuffer(K0("colorBuffer"), 0, NUM * 4 * BYTES_PER_ELEMENT),
      WriteBuffer(K0("modelViewBuffer"), 0, NUM * 4 * 4 * BYTES_PER_ELEMENT),
      RequestAnimationFrame(id)>>

draw_base_lighting2(id, cw, ch, cvs) == <<RequestAnimationFrame(id)>>

\* cubeResources without the bind group of the uniform buffer
cubeResources_noBindGroup(id, cw, ch, uniformBufferSize) ==
    <<CreateBuffer(Key(id, "cubeVerticesBuffer"), ByteLength),
      CreateTexture(Key(id, "depthTexture"), cw * dpr, ch * dpr),
      CreateBuffer(Key(id, "uniformBuffer"), uniformBufferSize)>>

cubeResources(id, cw, ch, uniformBufferSize) ==
    <<CreateBuffer(Key(id, "cubeVerticesBuffer"), ByteLength),
      CreateTexture(Key(id, "depthTexture"), cw * dpr, ch * dpr),
      CreateBuffer(Key(id, "uniformBuffer"), uniformBufferSize),
      CreateBindGroup(Key(id, "uniformBindGroup"), <<Key(id, "uniformBuffer")>>)>>

draw_cube(id, cw, ch, cvs) ==
    cubeResources(id, cw, ch, 4 * 16) \o <<RequestAnimationFrame(id)>>

\* draw_two_cubes with the two matrices packed: a uniform buffer of 2 * 64 bytes
draw_two_cubes_packed(id, cw, ch, cvs) ==
    cubeResources(id, cw, ch, 2 * matrixSize) \o
    <<CreateBindGroup(Key(id, "uniformBindGroup2"), <<Key(id, "uniformBuffer")>>),
      RequestAnimationFrame(id)>>

draw_two_cubes(id, cw, ch, cvs) ==
    cubeResources(id, cw, ch, twoCubesOffset + matrixSize) \o
    <<CreateBindGroup(Key(id, "uniformBindGroup2"), <<Key(id, "uniformBuffer")>>),
      RequestAnimationFrame(id)>>

draw_instanced_cubes(id, cw, ch, cvs) ==
    <<CreateBuffer(Key(id, "cubeVerticesBuffer"), ByteLength),
      CreateTexture(Key(id, "depthTexture"), cw * dpr, ch * dpr),
      CreateBuffer(Key(id, "uniformBuffer"), (xCount * yCount) * matrixSize),
      CreateBindGroup(Key(id, "uniformBindGroup"), <<Key(id, "uniformBuffer")>>),
      RequestAnimationFrame(id)>>

\* draw() of the image texture demo up to its first await (fetch) ...
draw_cube_imageTexture(id, cw, ch, cvs) == cubeResources(id, cw, ch, 4 * 16)

\* ... and from the decoded bitmap to the direct call of frame()
drawResume_cube_imageTexture(id) ==
    <<CreateTexture(Key(id, "texture"), env.image[1], env.image[2]),
      CopyExternalImageToTexture(Key(id, "texture")),
      CreateSampler(Key(id, "sampler")),
      CreateBindGroup(Key(id, "textureGroup"),
                      <<Key(id, "sampler"), Key(id, "texture")>>)>>
    \o frame_cube_imageTexture(id)

draw_cube_canvasTexture(id, cw, ch, cvs) == frame_cube_canvasTexture(id)

draw_cube_spriteTexture(id, cw, ch, cvs) == frame_cube_spriteTexture(id)

draw_shadowMapping(id, cw, ch, cvs) ==
    <<WriteBuffer(K0("colorBuffer"), 0, NUM_shadow * 4 * BYTES_PER_ELEMENT),
      RequestAnimationFrame(id)>>

draw_deferredRendering(id, cw, ch, cvs) ==
    <<WriteBuffer(K0("lightExtentBuffer"), 0, 8 * BYTES_PER_ELEMENT),
      WriteBuffer(K0("modelUniformBuffer"), 0, mat4ByteLength),
      WriteBuffer(K0("modelUniformBuffer"), 64, mat4ByteLength),
      RequestAnimationFrame(id)>>

draw_multisample(id, cw, ch, cvs) ==
    <<CreateTexture(Key(id, "texture"), cvs[1], cvs[2]),
      Pass("renderPass", Pipeline, <<>>, <<Key(id, "texture"), CanvasTex>>,
           <<>>, <<<<"3", 1, 0>>>>),
      Submit>>

draw_color_triangle(id, cw, ch, cvs) ==
    <<Pass("renderPass", Pipeline, <<K0("uniformGroup")>>, <<CanvasTex>>,
           <<>>, <<<<"3", 1, 0>>>>),
      Submit>>

draw(d, id, cw, ch, cvs) ==
    CASE d = "base_lighting" -> draw_base_lighting(id, cw, ch, cvs)
      [] d = "base_lighting2" -> draw_base_lighting2(id, cw, ch, cvs)
      [] d = "cube" -> draw_cube(id, cw, ch, cvs)
      [] d = "two_cubes" -> draw_two_cubes(id, cw, ch, cvs)
      [] d = "instanced_cubes" -> draw_instanced_cubes(id, cw, ch, cvs)
      [] d = "cube_imageTexture" -> draw_cube_imageTexture(id, cw, ch, cvs)
      [] d = "cube_canvasTexture" -> draw_cube_canvasTexture(id, cw, ch, cvs)
      [] d = "cube_spriteTexture" -> draw_cube_spriteTexture(id, cw, ch, cvs)
      [] d = "shadowMapping" -> draw_shadowMapping(id, cw, ch, cvs)
      [] d = "deferredRendering" -> draw_deferredRendering(id, cw, ch, cvs)
      [] d = "multisample" -> draw_multisample(id, cw, ch, cvs)
      [] d = "color_triangle" -> draw_color_triangle(id, cw, ch, cvs)

\* ------------------------------------------------------------------------
\* run() and the listeners
\* ------------------------------------------------------------------------
\* the client sizes the browser window takes: landscape and portrait
ClientSizes == {sz \in (1..MaxClient) \X (1..MaxClient) : sz[1] # sz[2]}

NotSupportMessage(d) ==
    IF d = "multisample" THEN "Not Support WebGpu" ELSE "Not Support WebGPU"

HasUpdateCamera(d) == d \in {"base_lighting", "base_lighting2", "shadowMapping"}

updateCamera(d) ==
    CASE d \in {"base_lighting", "base_lighting2"} ->
            <<WriteBuffer(K0("projectionBuffer"), 0, getProjectionMatrixByteLength)>>
      [] d = "shadowMapping" ->
            <<WriteBuffer(K0("cameraProjectionBuffer"), 0, getProjectionMatrixByteLength)>>
      [] OTHER -> <<>>

DrawBound(d) == IF d = "cube_spriteTexture" THEN MaxSpriteDraws ELSE MaxDraws

NextStamp == (stamp % StampMod) + 1

\* A handler runs to completion: its calls are applied to the device in order.
Handler(kind, calls, cvs) ==
    /\ dev' = Exec(calls, [dev EXCEPT !.nsubmit = 0], NextStamp, cvs)
    /\ stamp' = NextStamp
    /\ lastAct' = kind
    /\ lastCalls' = calls

Throw(msg) ==
    /\ error' = msg
    /\ pc' = "failed"

Init ==
    /\ demo \in Demos
    /\ env \in [gpu : BOOLEAN, adapter : BOOLEAN, canvas : BOOLEAN,
                ctx2d : BOOLEAN, mesh : 1..MaxMesh,
                image : (1..MaxImage) \X (1..MaxImage)]
    /\ env.adapter => env.gpu
    /\ demo # "cube_canvasTexture" => env.ctx2d
    /\ pc = "run"
    /\ error = "none"
    /\ requested = FALSE
    /\ dev = EmptyDevice
    /\ canvas = <<0, 0>>
    /\ client \in ClientSizes
    /\ dpr \in 1..MaxDpr
    /\ presentationSize = <<0, 0>>
    /\ projAspect = <<0, 0>>
    /\ resourcesObj = [renderDepthTexture |-> K0("none"), renderDepthView |-> K0("none")]
    /\ settings = [mode |-> "rendering", numLights |-> 32]
    /\ uvOffset = <<0, 0>>
    /\ count = <<>>
    /\ nDraw = 0
    /\ loading = {}
    /\ current = <<>>
    /\ submitsThisFrame = 0
    /\ stamp = 0
    /\ listeners = {}
    /\ sliders = [ambientIntensity |-> <<>>, pointLightRadius |-> <<>>]
    /\ ambient = <<>>
    /\ pointLight = <<>>
    /\ gpuLight = <<0, 0>>
    /\ lastAct = "init"
    /\ lastCalls = <<>>

\* run(): the canvas lookup (and the 2d whiteboard of the canvas texture demo)
Run ==
    /\ pc = "run"
    /\ IF ~env.canvas THEN Throw("No Canvas") /\ UNCHANGED listeners
       ELSE IF demo = "cube_canvasTexture" /\ ~env.ctx2d
            THEN Throw("No support 2d") /\ UNCHANGED listeners
       ELSE /\ pc' = "initWebGPU"
            /\ error' = error
            /\ listeners' = IF demo = "cube_canvasTexture"
                            THEN {"pointerdown", "pointermove", "pointerup", "pointerout"}
                            ELSE listeners
    /\ lastAct' = "run"
    /\ lastCalls' = <<>>
    /\ UNCHANGED <<demo, env, sliders, ambient, pointLight, gpuLight,
                   requested, dev, canvas, client, dpr,
                   presentationSize, projAspect, resourcesObj, settings,
                   uvOffset, count, nDraw, loading, current,
                   submitsThisFrame, stamp>>

\* InitWebGPU without the navigator.gpu check
InitWebGPU_unchecked ==
    /\ pc = "initWebGPU"
    /\ pc' = "requestAdapter" /\ requested' = TRUE /\ error' = error
    /\ lastAct' = "initWebGPU"
    /\ lastCalls' = <<>>
    /\ UNCHANGED <<demo, env, sliders, ambient, pointLight, gpuLight,
                   dev, canvas, client, dpr, presentationSize,
                   projAspect, resourcesObj, settings, uvOffset, count, nDraw,
                   loading, current, submitsThisFrame, stamp, listeners>>

\* initWebGPU up to the await of requestAdapter
InitWebGPU ==
    /\ pc = "initWebGPU"
    /\ IF ~env.gpu THEN Throw(NotSupportMessage(demo)) /\ UNCHANGED requested
       ELSE pc' = "requestAdapter" /\ requested' = TRUE /\ error' = error
    /\ lastAct' = "initWebGPU"
    /\ lastCalls' = <<>>
    /\ UNCHANGED <<demo, env, sliders, ambient, pointLight, gpuLight,
                   dev, canvas, client, dpr, presentationSize,
                   projAspect, resourcesObj, settings, uvOffset, count, nDraw,
                   loading, current, submitsThisFrame, stamp, listeners>>

\* RequestDevice without the check of the adapter
RequestDevice_unchecked ==
    /\ pc = "requestAdapter"
    /\ pc' = "requestDevice"
    /\ error' = error
    /\ lastAct' = "initWebGPU"
    /\ lastCalls' = <<>>
    /\ UNCHANGED <<demo, env, sliders, ambient, pointLight, gpuLight,
                   requested, dev, canvas, client, dpr, presentationSize,
                   projAspect, resourcesObj, settings, uvOffset, count,
                   nDraw, loading, current, submitsThisFrame, stamp,
                   listeners>>

\* initWebGPU from the adapter to the await of requestDevice
RequestDevice ==
    /\ pc = "requestAdapter"
    /\ IF ~env.adapter
       THEN Throw("No Adapter Found")
       ELSE pc' = "requestDevice" /\ error' = error
    /\ lastAct' = "initWebGPU"
    /\ lastCalls' = <<>>
    /\ UNCHANGED <<demo, env, sliders, ambient, pointLight, gpuLight,
                   requested, dev, canvas, client, dpr, presentationSize,
                   projAspect, resourcesObj, settings, uvOffset, count,
                   nDraw, loading, current, submitsThisFrame, stamp,
                   listeners>>

\* initWebGPU from the device to its return
ConfigureCanvas ==
    /\ pc = "requestDevice"
    /\ pc' = "initPipeline"
    /\ presentationSize' = <<client[1] * dpr, client[2] * dpr>>
    /\ canvas' = <<client[1] * dpr, client[2] * dpr>>
    /\ Handler("initWebGPU", <<Configure>>, canvas')
    /\ UNCHANGED <<demo, env, sliders, ambient, pointLight, gpuLight,
                   error, requested, client, dpr, projAspect, resourcesObj,
                   settings, uvOffset, count, nDraw, loading, current,
                   submitsThisFrame, listeners>>

\* the calls of initPipeline up to its second await, and those after it
initPipelineFirst(d) ==
    IF d = "shadowMapping" THEN SubSeq(initPipeline(d), 1, 1) ELSE initPipeline(d)
initPipelineRest(d) ==
    IF d = "shadowMapping" THEN SubSeq(initPipeline(d), 2, 2) ELSE <<>>

\* the calls of createResources up to its first await (the sprite demo
\* fetches its image), and those after its last await
createResourcesFirst(d) ==
    IF d = "cube_spriteTexture" THEN SubSeq(createResources(d), 1, 4)
    ELSE createResources(d)
createResourcesRest(d) ==
    IF d = "cube_spriteTexture"
    THEN SubSeq(createResources(d), 5, Len(createResources(d)))
    ELSE <<>>

InitPipeline ==
    /\ pc = "initPipeline"
    /\ pc' = IF demo = "shadowMapping" THEN "renderPipeline"
             ELSE IF HasCreateResources(demo) THEN "createResources"
             ELSE "draw"
    /\ Handler("initPipeline", initPipelineFirst(demo), canvas)
    /\ UNCHANGED <<demo, env, sliders, ambient, pointLight, gpuLight,
                   error, requested, canvas, client, dpr,
                   presentationSize, projAspect, resourcesObj, settings,
                   uvOffset, count, nDraw, loading, current,
                   submitsThisFrame, listeners>>

\* shadow mapping: the second createRenderPipelineAsync resolves
InitRenderPipeline ==
    /\ pc = "renderPipeline"
    /\ pc' = "createResources"
    /\ Handler("initPipeline", initPipelineRest(demo), canvas)
    /\ UNCHANGED <<demo, env, sliders, ambient, pointLight, gpuLight,
                   error, requested, canvas, client, dpr,
                   presentationSize, projAspect, resourcesObj, settings,
                   uvOffset, count, nDraw, loading, current,
                   submitsThisFrame, listeners>>

\* createResources up to its return or, in the sprite demo, to its fetch
CreateResources ==
    /\ pc = "createResources"
    /\ pc' = IF demo = "cube_spriteTexture" THEN "fetch" ELSE "draw"
    /\ Handler("createResources", createResourcesFirst(demo), canvas)
    /\ resourcesObj' = IF demo = "shadowMapping"
                       THEN [renderDepthTexture |-> K0("renderDepthTexture"),
                             renderDepthView |-> K0("renderDepthTexture")]
                       ELSE resourcesObj
    /\ listeners' = IF demo = "deferredRendering"
                    THEN listeners \cup {"gui.mode", "gui.numLights"}
                    ELSE listeners
    /\ UNCHANGED <<demo, env, sliders, ambient, pointLight, gpuLight,
                   error, requested, canvas, client, dpr,
                   presentationSize, projAspect, settings, uvOffset, count,
                   nDraw, loading, current, submitsThisFrame>>

\* sprite demo: fetch resolves, res.blob() is awaited
FetchResolved ==
    /\ pc = "fetch"
    /\ pc' = "blob"
    /\ lastAct' = "createResources"
    /\ lastCalls' = <<>>
    /\ UNCHANGED <<demo, env, sliders, ambient, pointLight, gpuLight,
                   error, requested, dev, canvas, client, dpr,
                   presentationSize, projAspect, resourcesObj, settings,
                   uvOffset, count, nDraw, loading, current,
                   submitsThisFrame, stamp, listeners>>

\* sprite demo: the blob resolves, createImageBitmap is awaited
BlobResolved ==
    /\ pc = "blob"
    /\ pc' = "createImageBitmap"
    /\ lastAct' = "createResources"
    /\ lastCalls' = <<>>
    /\ UNCHANGED <<demo, env, sliders, ambient, pointLight, gpuLight,
                   error, requested, dev, canvas, client, dpr,
                   presentationSize, projAspect, resourcesObj, settings,
                   uvOffset, count, nDraw, loading, current,
                   submitsThisFrame, stamp, listeners>>

\* sprite demo: createResources from the decoded bitmap to its return
CreateResourcesResume ==
    /\ pc = "createImageBitmap"
    /\ pc' = "draw"
    /\ Handler("createResources", createResourcesRest(demo), canvas)
    /\ UNCHANGED <<demo, env, sliders, ambient, pointLight, gpuLight,
                   error, requested, canvas, client, dpr,
                   presentationSize, projAspect, resourcesObj, settings,
                   uvOffset, count, nDraw, loading, current,
                   submitsThisFrame, listeners>>

\* the positions at which run() waits in the event loop for a promise of
\* the browser (deferred rendering builds its pipelines without waiting)
Awaiting ==
    \/ pc \in {"requestAdapter", "requestDevice", "renderPipeline",
               "fetch", "blob", "createImageBitmap"}
    \/ pc = "initPipeline" /\ demo # "deferredRendering"

\* the window is resized while run() waits: no listener is registered yet,
\* only the client size of the canvas changes
ResizeUnheard(cw, ch) ==
    /\ Awaiting
    /\ "resize" \notin listeners
    /\ <<cw, ch>> # client
    /\ client' = <<cw, ch>>
    /\ lastAct' = "resizeUnheard"
    /\ lastCalls' = <<>>
    /\ UNCHANGED <<demo, env, sliders, ambient, pointLight, gpuLight,
                   pc, error, requested, dev, canvas, dpr,
                   presentationSize, projAspect, resourcesObj, settings,
                   uvOffset, count, nDraw, loading, current,
                   submitsThisFrame, stamp, listeners>>

\* the closure state a call of draw() with this id leaves behind
CountAfterDraw(d, id) ==
    IF d = "cube_spriteTexture" THEN (id :> NextCount(id)) @@ count ELSE count
UvOffsetAfterDraw(d, id) ==
    IF d = "cube_spriteTexture" THEN NextUvOffset(id) ELSE uvOffset
LoadingAfterDraw(d, id) ==
    IF d = "cube_imageTexture" THEN loading \cup {id} ELSE loading
\* base_lighting2: draw() makes its own light arrays, ambient[0] = 0.1 and
\* pointLight[5] = 40
AmbientAfterDraw(d, id) ==
    IF d = "base_lighting2" THEN (id :> 1) @@ ambient ELSE ambient
PointLightAfterDraw(d, id) ==
    IF d = "base_lighting2" THEN (id :> 40) @@ pointLight ELSE pointLight
\* base_lighting2: frame() writes the arrays of its closure to ambientBuffer
\* and pointLightBuffer
GpuLightAfterFrame(d, id) ==
    IF d = "base_lighting2" THEN <<ambient[id], pointLight[id]>> ELSE gpuLight

\* run() from its call of draw() to its end
DrawAndListen ==
    /\ pc = "draw"
    /\ pc' = "listening"
    /\ nDraw' = nDraw + 1
    /\ Handler("draw",
               draw(demo, nDraw + 1, client[1], client[2], canvas)
                   \o updateCamera(demo),
               canvas)
    /\ projAspect' = IF HasUpdateCamera(demo) THEN presentationSize ELSE projAspect
    /\ count' = CountAfterDraw(demo, nDraw + 1)
    /\ uvOffset' = UvOffsetAfterDraw(demo, nDraw + 1)
    /\ loading' = LoadingAfterDraw(demo, nDraw + 1)
    /\ ambient' = AmbientAfterDraw(demo, nDraw + 1)
    /\ pointLight' = PointLightAfterDraw(demo, nDraw + 1)
    /\ listeners' = listeners \cup {"resize"} \cup
                    (IF demo = "color_triangle" THEN {"input"} ELSE {}) \cup
                    (IF demo = "base_lighting2"
                     THEN {"ambientIntensity", "pointLightRadius"} ELSE {})
    /\ UNCHANGED <<demo, env, sliders, gpuLight,
                   error, requested, canvas, client, dpr,
                   presentationSize, resourcesObj, settings, current,
                   submitsThisFrame>>

\* image texture demo: fetch and createImageBitmap resolve, draw() continues
DrawResume(id) ==
    /\ id \in loading
    /\ current = <<>>
    /\ loading' = loading \ {id}
    /\ Handler("drawResume", drawResume_cube_imageTexture(id), canvas)
    /\ UNCHANGED <<demo, env, sliders, ambient, pointLight, gpuLight,
                   pc, error, requested, canvas, client, dpr,
                   presentationSize, projAspect, resourcesObj, settings,
                   uvOffset, count, nDraw, current, submitsThisFrame, listeners>>

\* the display refreshes: the callbacks registered so far become due
BeginFrame ==
    /\ current = <<>>
    /\ dev.pending # <<>>
    /\ current' = dev.pending
    /\ dev' = [dev EXCEPT !.pending = <<>>]
    /\ submitsThisFrame' = 0
    /\ lastAct' = "refresh"
    /\ lastCalls' = <<>>
    /\ UNCHANGED <<demo, env, sliders, ambient, pointLight, gpuLight,
                   pc, error, requested, canvas, client, dpr,
                   presentationSize, projAspect, resourcesObj, settings,
                   uvOffset, count, nDraw, loading, stamp, listeners>>

\* the next due callback runs
FrameCallback ==
    /\ current # <<>>
    /\ current' = Tail(current)
    /\ Handler("frame", frame(demo, Head(current)), canvas)
    /\ submitsThisFrame' = submitsThisFrame + dev'.nsubmit
    /\ count' = CountAfterDraw(demo, Head(current))
    /\ uvOffset' = UvOffsetAfterDraw(demo, Head(current))
    /\ gpuLight' = GpuLightAfterFrame(demo, Head(current))
    /\ UNCHANGED <<demo, env, sliders, ambient, pointLight,
                   pc, error, requested, canvas, client, dpr,
                   presentationSize, projAspect, resourcesObj, settings,
                   nDraw, loading, listeners>>

\* ------------------------------------------------------------------------
\* Event listeners
\* ------------------------------------------------------------------------
\* canvas.width, canvas.height as the resize listener leaves them
resizeCanvas(d, cw, ch) ==
    IF d = "multisample" THEN <<ch * dpr, canvas[2]>>
    ELSE <<cw * dpr, ch * dpr>>

\* presentationSize as the resize listener leaves it
resizePresentationSize(d, cw, ch) ==
    IF d = "shadowMapping" THEN <<ch * dpr, presentationSize[2]>>
    ELSE presentationSize

\* resourcesObj as the resize listener leaves it
resizeResourcesObj(d, id) ==
    IF d = "shadowMapping"
    THEN [renderDepthTexture |-> Key(id, "renderDepthTexture"),
          renderDepthView |-> Key(id, "renderDepthTexture")]
    ELSE resourcesObj

\* the WebGPU calls of the resize listener, before it calls draw()
resizeCalls(d, id, cw, ch) ==
    IF d = "shadowMapping"
    THEN <<Destroy(resourcesObj.renderDepthTexture),
           CreateTexture(Key(id, "renderDepthTexture"),
                         resizePresentationSize(d, cw, ch)[1],
                         resizePresentationSize(d, cw, ch)[2])>>
    ELSE <<Configure>>

\* window "resize": the canvas now has client size cw x ch; the listener
\* is followed while fewer than bound calls of draw() have been made
ResizeWithin(cw, ch, bound) ==
    /\ pc = "listening"
    /\ "resize" \in listeners
    /\ current = <<>>
    /\ nDraw < bound
    /\ client' = <<cw, ch>>
    /\ canvas' = resizeCanvas(demo, cw, ch)
    /\ presentationSize' = resizePresentationSize(demo, cw, ch)
    /\ resourcesObj' = resizeResourcesObj(demo, nDraw + 1)
    /\ nDraw' = nDraw + 1
    /\ Handler("resize",
               resizeCalls(demo, nDraw + 1, cw, ch)
                   \o draw(demo, nDraw + 1, cw, ch, canvas')
                   \o updateCamera(demo),
               canvas')
    /\ projAspect' = IF HasUpdateCamera(demo) THEN presentationSize' ELSE projAspect
    /\ count' = CountAfterDraw(demo, nDraw + 1)
    /\ uvOffset' = UvOffsetAfterDraw(demo, nDraw + 1)
    /\ loading' = LoadingAfterDraw(demo, nDraw + 1)
    /\ ambient' = AmbientAfterDraw(demo, nDraw + 1)
    /\ pointLight' = PointLightAfterDraw(demo, nDraw + 1)
    /\ UNCHANGED <<demo, env, sliders, gpuLight,
                   pc, error, requested, dpr, settings, current,
                   submitsThisFrame, listeners>>

Resize(cw, ch) == ResizeWithin(cw, ch, DrawBound(demo))

\* color triangle: the colour picker's "input"
ColorInput ==
    /\ pc = "listening"
    /\ "input" \in listeners
    /\ current = <<>>
    /\ nDraw < DrawBound(demo)
    /\ nDraw' = nDraw + 1
    /\ Handler("input",
               <<WriteBuffer(K0("colorBuffer"), 0, 4 * BYTES_PER_ELEMENT)>>
                   \o draw(demo, nDraw + 1, client[1], client[2], canvas),
               canvas)
    /\ UNCHANGED <<demo, env, sliders, ambient, pointLight, gpuLight,
                   pc, error, requested, canvas, client, dpr,
                   presentationSize, projAspect, resourcesObj, settings,
                   uvOffset, count, loading, current, submitsThisFrame,
                   listeners>>

\* the values the sliders are moved to: ambient intensity in tenths, radius
AmbientInputs == {1, 5}
RadiusInputs == {40, 80}

\* base_lighting2: "input" of #ambientIntensity; the listener of every
\* draw() call so far sets the ambient array of its own closure
AmbientIntensityInput(v) ==
    /\ pc = "listening"
    /\ "ambientIntensity" \in listeners
    /\ current = <<>>
    /\ sliders.ambientIntensity # <<v>>
    /\ sliders' = [sliders EXCEPT !.ambientIntensity = <<v>>]
    /\ ambient' = [id \in DOMAIN ambient |-> v]
    /\ lastAct' = "slider"
    /\ lastCalls' = <<>>
    /\ UNCHANGED <<demo, env, pointLight, gpuLight, pc, error, requested, dev,
                   canvas, client, dpr, presentationSize, projAspect,
                   resourcesObj, settings, uvOffset, count, nDraw, loading,
                   current, submitsThisFrame, stamp, listeners>>

\* base_lighting2: "input" of #pointLightRadius
PointLightRadiusInput(v) ==
    /\ pc = "listening"
    /\ "pointLightRadius" \in listeners
    /\ current = <<>>
    /\ sliders.pointLightRadius # <<v>>
    /\ sliders' = [sliders EXCEPT !.pointLightRadius = <<v>>]
    /\ pointLight' = [id \in DOMAIN pointLight |-> v]
    /\ lastAct' = "slider"
    /\ lastCalls' = <<>>
    /\ UNCHANGED <<demo, env, ambient, gpuLight, pc, error, requested, dev,
                   canvas, client, dpr, presentationSize, projAspect,
                   resourcesObj, settings, uvOffset, count, nDraw, loading,
                   current, submitsThisFrame, stamp, listeners>>

Modes == {"rendering", "gBuffers view"}
NumLightsInputs == {32, kMaxNumLights}

\* deferred rendering: the GUI's mode selector
GuiMode(m) ==
    /\ pc = "listening"
    /\ "gui.mode" \in listeners
    /\ current = <<>>
    /\ m # settings.mode
    /\ settings' = [settings EXCEPT !.mode = m]
    /\ lastAct' = "gui"
    /\ lastCalls' = <<>>
    /\ UNCHANGED <<demo, env, sliders, ambient, pointLight, gpuLight,
                   pc, error, requested, dev, canvas, client, dpr,
                   presentationSize, projAspect, resourcesObj, uvOffset, count,
                   nDraw, loading, current, submitsThisFrame, stamp, listeners>>

\* deferred rendering: the GUI's numLights slider and its onChange
GuiNumLights(n) ==
    /\ pc = "listening"
    /\ "gui.numLights" \in listeners
    /\ current = <<>>
    /\ n # settings.numLights
    /\ settings' = [settings EXCEPT !.numLights = n]
    /\ Handler("gui",
               <<WriteBuffer(K0("configUniformBuffer"), 0, 1 * BYTES_PER_ELEMENT)>>,
               canvas)
    /\ UNCHANGED <<demo, env, sliders, ambient, pointLight, gpuLight,
                   pc, error, requested, canvas, client, dpr,
                   presentationSize, projAspect, resourcesObj, uvOffset, count,
                   nDraw, loading, current, submitsThisFrame, listeners>>

Next ==
    \/ Run
    \/ InitWebGPU
    \/ RequestDevice
    \/ ConfigureCanvas
    \/ InitPipeline
    \/ InitRenderPipeline
    \/ CreateResources
    \/ FetchResolved
    \/ BlobResolved
    \/ CreateResourcesResume
    \/ \E sz \in ClientSizes : ResizeUnheard(sz[1], sz[2])
    \/ DrawAndListen
    \/ \E id \in loading : DrawResume(id)
    \/ BeginFrame
    \/ FrameCallback
    \/ \E sz \in ClientSizes : Resize(sz[1], sz[2])
    \/ ColorInput
    \/ \E m \in Modes : GuiMode(m)
    \/ \E n \in NumLightsInputs : GuiNumLights(n)
    \/ \E v \in AmbientInputs : AmbientIntensityInput(v)
    \/ \E v \in RadiusInputs : PointLightRadiusInput(v)

Spec == Init /\ [][Next]_vars

\* The display keeps refreshing and a due callback is run: weak fairness of
\* BeginFrame and of FrameCallback, the latter written out with its enabling
\* condition (a callback is due).
FairSpec ==
    /\ Spec
    /\ WF_vars(BeginFrame)
    /\ ([]<>(current = <<>>) \/ []<><<FrameCallback>>_vars)

\* The sprite texture demo on its own, in a browser that supports WebGPU,
\* with a window that is resized: its frame counters have period 90, so
\* its frame loops are followed in a specification of their own.
SpriteInit ==
    /\ Init
    /\ demo = "cube_spriteTexture"
    /\ env.gpu /\ env.adapter /\ env.canvas
    /\ client = <<2, 1>>
    /\ dpr = 1

SpriteResize(cw, ch) == ResizeWithin(cw, ch, MaxSpriteLoops)

SpriteNext ==
    \/ Run
    \/ InitWebGPU
    \/ RequestDevice
    \/ ConfigureCanvas
    \/ InitPipeline
    \/ CreateResources
    \/ FetchResolved
    \/ BlobResolved
    \/ CreateResourcesResume
    \/ \E sz \in ClientSizes : ResizeUnheard(sz[1], sz[2])
    \/ DrawAndListen
    \/ BeginFrame
    \/ FrameCallback
    \/ \E sz \in ClientSizes : SpriteResize(sz[1], sz[2])

SpriteSpec == SpriteInit /\ [][SpriteNext]_vars

TypeOK ==
    /\ demo \in Demos
    /\ pc \in {"run", "initWebGPU", "requestAdapter", "requestDevice",
               "initPipeline", "renderPipeline", "createResources", "fetch",
               "blob", "createImageBitmap", "draw", "listening", "failed"}
    /\ nDraw \in 0..MaxDraws
    /\ stamp \in 0..StampMod
    /\ submitsThisFrame \in 0..MaxDraws

\* ------------------------------------------------------------------------
\* Properties
\* ------------------------------------------------------------------------
\* run() has returned and the draw() it called has reached its frame loop
StartupDone == pc = "listening" /\ 1 \notin loading

Created == DOMAIN dev.bufs \cup DOMAIN dev.texs

\* the demos whose draw() starts a requestAnimationFrame loop
AnimatedDemos == Demos \ {"multisample", "color_triangle"}

\* C1: in every demo, between two display refreshes at most one frame
\* callback submits a command buffer.
C1_OneSubmitPerAnimationFrame == submitsThisFrame <= 1

\* the display will call a frame callback again
FrameLoopAlive == dev.pending # <<>> \/ current # <<>>

\* C2 (as stated): once startup has finished, no handler creates or destroys
\* a GPU buffer or texture.
C2_NothingCreatedAfterStartup ==
    [][StartupDone => (Created' = Created /\ dev'.dead = dev.dead)]_vars

\* the demos whose draw() allocates, or whose resize listener replaces a texture
AllocatingOnResize == {"cube", "two_cubes", "instanced_cubes",
                       "cube_imageTexture", "multisample", "shadowMapping"}

\* C2 (amended): once startup has finished, frame callbacks and GUI / input
\* handlers create or destroy no buffer or texture; only the resize listener
\* does, through the draw() it calls (and the continuation of that draw()
\* in the image texture demo) or by replacing the depth texture, and only in
\* cube, two_cubes, instanced_cubes, cube_imageTexture, multisample and
\* shadowMapping.
C2_OnlyResizeCreatesAfterStartup ==
    [][(StartupDone /\ (Created' # Created \/ dev'.dead # dev.dead))
        => (lastAct' \in {"resize", "drawResume"} /\ demo \in AllocatingOnResize)]_vars

\* a frame callback ran after startup and after a resize
C2_Witness ==
    /\ StartupDone /\ lastAct = "frame" /\ nDraw >= 2
    /\ demo \in AllocatingOnResize

\* C3 (as stated): in each demo, once startup has finished a frame callback
\* is registered or due, so that a further frame will be submitted.
C3_EveryDemoKeepsAFrameLoop == StartupDone => FrameLoopAlive

\* C3 (amended): in every demo but multisample and color_triangle, each frame
\* callback ends by registering itself again, and once startup has finished
\* the display refreshes again and again and each refresh is followed by a
\* frame callback that submits.
C3_AnimatedDemosKeepSubmitting ==
    /\ [](lastAct = "frame" =>
            /\ lastCalls[Len(lastCalls)].op = "requestAnimationFrame"
            /\ dev.pending # <<>>)
    /\ [](StartupDone /\ demo \in AnimatedDemos => FrameLoopAlive)
    /\ (StartupDone /\ demo \in AnimatedDemos) ~> (lastAct = "refresh")
    /\ (lastAct = "refresh") ~> (lastAct = "frame" /\ dev.nsubmit = 1)

\* the callback of a frame loop started by a resize has run and registered
\* itself again
C3_Witness ==
    /\ lastAct = "frame" /\ nDraw >= 2 /\ current = <<>>
    /\ Len(dev.pending) >= 2

\* the pipelines initPipeline of the demo creates
PipelinesOf(d) ==
    {initPipeline(d)[i].res : i \in {j \in 1..Len(initPipeline(d)) :
                                       initPipeline(d)[j].op = "createPipeline"}}

\* the buffers, textures, samplers and bind groups createResources makes
ResourcesOf(d) ==
    {createResources(d)[i].res : i \in {j \in 1..Len(createResources(d)) :
        createResources(d)[j].op \in {"createBuffer", "createTexture",
                                      "createSampler", "createBindGroup"}}}

\* C4: startup runs in the order device and canvas configuration, pipelines,
\* resources and bind groups, frame loop; and every command buffer submitted
\* uses only pipelines, buffers, textures and bind groups that exist.
C4_StartupOrder ==
    /\ dev.pipes # {} => (requested /\ dev.configured)
    /\ (DOMAIN dev.bufs \cup DOMAIN dev.texs \cup DOMAIN dev.groups # {})
          => PipelinesOf(demo) \subseteq dev.pipes
    /\ (FrameLoopAlive \/ dev.cmd # NoCmd) =>
          /\ pc = "listening"
          /\ \A k \in ResourcesOf(demo) : Exists(dev, k)
    /\ dev.cmd.missing = {}

\* frames of two loops were submitted
C4_Witness ==
    /\ lastAct = "frame" /\ dev.cmd # NoCmd /\ nDraw >= 2
    /\ \E i \in 1..Len(dev.cmd.passes) : dev.cmd.passes[i].groups # <<>>

\* what holds in a browser without navigator.gpu, whatever the message
NoWebGPUStops ==
    /\ ~requested
    /\ dev = EmptyDevice
    /\ "resize" \notin listeners
    /\ nDraw = 0
    /\ pc \in {"run", "initWebGPU", "failed"}
    /\ lastAct = "initWebGPU" => pc = "failed"

\* C5 (as stated): without navigator.gpu, initWebGPU throws
\* 'Not Support WebGPU' before it requests an adapter, and nothing is
\* created, registered or submitted.
C5_NotSupportWebGPU ==
    ~env.gpu =>
        /\ NoWebGPUStops
        /\ lastAct = "initWebGPU" => error = "Not Support WebGPU"

\* C5 (amended): without navigator.gpu, initWebGPU throws before it requests
\* an adapter, with the message 'Not Support WebGPU' ('Not Support WebGpu'
\* in the multisample demo), and nothing is created, registered or submitted.
C5_NotSupportThrown ==
    ~env.gpu =>
        /\ NoWebGPUStops
        /\ lastAct = "initWebGPU" =>
              error = IF demo = "multisample" THEN "Not Support WebGpu"
                      ELSE "Not Support WebGPU"

\* initWebGPU has thrown for lack of navigator.gpu
C5_Witness ==
    /\ ~env.gpu /\ lastAct = "initWebGPU" /\ pc = "failed"
    /\ error = "Not Support WebGPU"

\* C6 (as stated): the only error startup raises is the capability error.
C6_OnlyCapabilityError ==
    error \in {"none", "Not Support WebGPU", "Not Support WebGpu"}

\* C6 (amended): startup raises exactly one of four errors, decided by the
\* first check that fails, in the order canvas, 2d context (canvas texture
\* demo), navigator.gpu, adapter; after a throw run() does nothing more.
C6_StartupErrors ==
    /\ error # "none" <=> pc = "failed"
    /\ pc \in {"failed", "listening"} =>
          error = IF ~env.canvas THEN "No Canvas"
                  ELSE IF demo = "cube_canvasTexture" /\ ~env.ctx2d
                       THEN "No support 2d"
                  ELSE IF ~env.gpu
                       THEN (IF demo = "multisample" THEN "Not Support WebGpu"
                             ELSE "Not Support WebGPU")
                  ELSE IF ~env.adapter THEN "No Adapter Found"
                  ELSE "none"
    /\ pc = "failed" => (dev.pending = <<>> /\ dev.cmd = NoCmd
                         /\ "resize" \notin listeners)

\* startup stopped on the missing adapter
C6_Witness == pc = "failed" /\ error = "No Adapter Found" /\ requested

\* the stage of the deferred frame a call belongs to
DeferredStage(c) ==
    CASE c.op = "writeBuffer" /\ c.res = K0("cameraUniformBuffer") -> "camera write"
      [] c.op = "pass" /\ c.x.name = "gBufferPass" -> "G-buffer pass"
      [] c.op = "pass" /\ c.x.name = "lightPass" -> "light-update pass"
      [] c.op = "pass" /\ c.x.attach = <<CanvasTex>> -> "final pass"
      [] OTHER -> c.op

Stages(calls) == [i \in 1..Len(calls) |-> DeferredStage(calls[i])]

\* C7: every frame callback of the deferred demo issues, in this order, the
\* camera uniform writes, the G-buffer pass, the light-update pass, the final
\* pass and one submit (and then registers itself again), whatever the mode
\* and numLights.
C7_DeferredFrameSequence ==
    (demo = "deferredRendering" /\ lastAct = "frame") =>
        /\ Stages(lastCalls) =
              <<"camera write", "camera write", "G-buffer pass",
                "light-update pass", "final pass", "submit",
                "requestAnimationFrame">>
        /\ dev.nsubmit = 1
        /\ Len(dev.cmd.passes) = 3
        /\ dev.cmd.passes[1].name = "gBufferPass"
        /\ dev.cmd.passes[2].name = "lightPass"
        /\ dev.cmd.passes[3].attach = <<CanvasTex>>

\* a deferred frame ran in the G-buffer view with numLights changed
C7_Witness ==
    /\ demo = "deferredRendering" /\ lastAct = "frame"
    /\ settings.mode = "gBuffers view"
    /\ settings.numLights = kMaxNumLights

\* C8: in the command buffer of a deferred frame, the textures the G-buffer
\* pass writes are bindings 0, 1, 2 of the bind group the final pass reads;
\* the compute and the composite bind groups bind the same lights buffer and
\* the same config buffer; and what the final pass reads of the G-buffer and
\* of the lights was produced in this same command buffer.
C8_DeferredSharedBindGroups ==
    (demo = "deferredRendering" /\ dev.cmd # NoCmd) =>
        LET g == dev.cmd.passes[1]
            l == dev.cmd.passes[2]
            f == dev.cmd.passes[3]
            compute == dev.groups[l.groups[1]]
            composite == dev.groups[K0("lightsBufferBindGroup")]
        IN /\ g.attach = dev.groups[f.groups[1]]
           /\ compute[1] = composite[1] /\ compute[2] = composite[2]
           /\ compute[1] \in DOMAIN dev.bufs /\ compute[2] \in DOMAIN dev.bufs
           /\ \A i \in 1..Len(g.attach) : f.saw[g.attach[i]] = dev.cmd.stamp
           /\ Len(f.groups) = 2 =>
                 /\ f.groups[2] = K0("lightsBufferBindGroup")
                 /\ f.saw[composite[1]] = dev.cmd.stamp

\* a deferred frame composited the lights while two frame loops run
C8_Witness ==
    /\ demo = "deferredRendering" /\ lastAct = "frame" /\ nDraw >= 2
    /\ dev.cmd.passes[3].name = "deferredRenderingPass"

IsWrite(c) == c.op = "writeBuffer"

\* C9: every writeBuffer of every handler stays inside its buffer:
\* offset + byte length <= size.
C9_WritesFitTheirBuffers ==
    \A i \in 1..Len(lastCalls) :
        IsWrite(lastCalls[i]) =>
            /\ lastCalls[i].res \in DOMAIN dev.bufs
            /\ lastCalls[i].x + lastCalls[i].y <= dev.bufs[lastCalls[i].res]

\* a frame wrote at a non-zero offset, up to the last byte of the buffer
C9_Witness ==
    /\ lastAct = "frame"
    /\ \E i \in 1..Len(lastCalls) :
          /\ IsWrite(lastCalls[i]) /\ lastCalls[i].x > 0
          /\ lastCalls[i].x + lastCalls[i].y = dev.bufs[lastCalls[i].res]

IsUpload(c) == c.op \in {"writeBuffer", "copyExternalImageToTexture"}

\* C10: in every frame callback all buffer writes and texture copies come
\* before the submit, and the passes of the submitted command buffer see,
\* of everything the callback uploaded, this callback's data.
C10_UploadsPrecedeSubmit ==
    lastAct = "frame" =>
        /\ dev.cmd.stamp = stamp
        /\ \A i, j \in 1..Len(lastCalls) :
              (IsUpload(lastCalls[i]) /\ lastCalls[j].op = "submit") => i < j
        /\ \A i \in 1..Len(lastCalls) : \A n \in 1..Len(dev.cmd.passes) :
              (IsUpload(lastCalls[i])
                 /\ lastCalls[i].res \in DOMAIN dev.cmd.passes[n].saw)
              => dev.cmd.passes[n].saw[lastCalls[i].res] = stamp

\* a frame uploaded a buffer and a texture that its pass read
C10_Witness ==
    /\ lastAct = "frame"
    /\ \E i, j \in 1..Len(lastCalls) :
          /\ lastCalls[i].op = "writeBuffer"
          /\ lastCalls[j].op = "copyExternalImageToTexture"
          /\ lastCalls[i].res \in DOMAIN dev.cmd.passes[1].saw
          /\ lastCalls[j].res \in DOMAIN dev.cmd.passes[1].saw

\* the depth textures the demos attach next to the canvas texture
IsDepthTexture(k) == k[2] \in {"depthTexture", "renderDepthTexture"}

\* C11: in every submitted render pass that draws to the canvas with a depth
\* attachment, the depth texture has the width and height of the canvas's
\* current texture.
C11_DepthMatchesCanvas ==
    \A n \in 1..Len(dev.cmd.passes) :
        LET p == dev.cmd.passes[n]
        IN CanvasTex \in Range(p.attach) =>
              \A i \in 1..Len(p.attach) :
                  IsDepthTexture(p.attach[i]) => dev.texs[p.attach[i]] = p.target

\* the instance indices a drawIndexed <<count, instances, first>> covers
Instances(d) == d[3]..(d[3] + d[2] - 1)

\* C12: in both passes of a shadow-mapping frame the box draw covers the
\* instances 0 and 1, the sphere draw the instances 2..NUM-1.
C12_ShadowInstancesCoverScene ==
    (demo = "shadowMapping" /\ dev.cmd # NoCmd) =>
        \A n \in 1..Len(dev.cmd.passes) :
            LET p == dev.cmd.passes[n]
            IN /\ Len(p.draws) = 2
               /\ Instances(p.draws[1]) = {0, 1}
               /\ Instances(p.draws[2]) = 2..(NUM_shadow - 1)

\* C13: after a resize, the aspect updateCamera() used is canvas width over
\* canvas height.
C13_AspectFollowsCanvas ==
    (lastAct = "resize" /\ HasUpdateCamera(demo)) =>
        projAspect[1] * canvas[2] = projAspect[2] * canvas[1]

\* C14: after a resize, canvas.width and canvas.height are the client size
\* times devicePixelRatio, and so is presentationSize in the shadow-mapping
\* demo.
C14_CanvasFollowsClient ==
    lastAct = "resize" =>
        /\ canvas = <<client[1] * dpr, client[2] * dpr>>
        /\ demo = "shadowMapping" => presentationSize = canvas

\* C15: in the sprite texture demo the row offset uvOffset[1] changes only
\* in a frame callback in which the column offset uvOffset[0] wraps from 2/3
\* to 0, whatever frame callbacks and resize events came before.
C15_RowChangesOnColumnWrap ==
    [][uvOffset'[2] # uvOffset[2] =>
          /\ lastAct' = "frame"
          /\ uvOffset[1] = 2
          /\ uvOffset'[1] = 0]_vars

\* the value a slider shows: the value of its last "input", or the default
SliderValue(s, default) == IF s = <<>> THEN default ELSE s[1]

\* C16: in base_lighting2 the ambient intensity and the point-light radius
\* a frame writes to the GPU buffers equal the sliders' most recent values
\* (0.1 and 40 for a slider never moved), whatever slider inputs and resize
\* events came before.
C16_FrameWritesSliderValues ==
    (demo = "base_lighting2" /\ lastAct = "frame") =>
        gpuLight = <<SliderValue(sliders.ambientIntensity, 1),
                     SliderValue(sliders.pointLightRadius, 40)>>

\* the frame loop whose callback ran last: it registered itself again
LastLoop == dev.pending[Len(dev.pending)]

\* C17: in shadowMapping the depth view stored in the resources object
\* always belongs to a texture that exists and was not destroyed, and every
\* frame callback, of whichever frame loop, submits passes that attach
\* that view and no destroyed texture.
C17_NoDestroyedDepthTexture ==
    demo = "shadowMapping" =>
        /\ resourcesObj.renderDepthView # K0("none") =>
               /\ resourcesObj.renderDepthView \in DOMAIN dev.texs
               /\ resourcesObj.renderDepthView \notin dev.dead
        /\ lastAct = "frame" =>
               /\ dev.cmd.stamp = stamp
               /\ \A n \in 1..Len(dev.cmd.passes) :
                      LET p == dev.cmd.passes[n]
                      IN /\ Range(p.attach) \cap dev.dead = {}
                         /\ p.name = "renderPass" =>
                                p.attach[2] = resourcesObj.renderDepthView

\* a frame loop started before a resize has run a frame after it
C17_Witness ==
    /\ demo = "shadowMapping"
    /\ lastAct = "frame"
    /\ dev.dead # {}
    /\ LastLoop = 1
    /\ Len(dev.cmd.passes) = 2

\* C18: in shadowMapping each frame submits one command buffer with the
\* shadow pass before the render pass; the depth view the shadow pass
\* writes is the one at binding 1 of the fragment bind group (group 1) of
\* the render pass, and both passes read the light projection matrix
\* written by that same frame callback.
C18_ShadowPassFeedsRenderPass ==
    (demo = "shadowMapping" /\ lastAct = "frame") =>
        /\ dev.nsubmit = 1
        /\ dev.cmd.stamp = stamp
        /\ Len(dev.cmd.passes) = 2
        /\ LET shadow == dev.cmd.passes[1]
               render == dev.cmd.passes[2]
           IN /\ shadow.name = "shadowPass"
              /\ render.name = "renderPass"
              /\ Len(render.groups) = 2
              /\ render.groups[2] \in DOMAIN dev.groups
              /\ shadow.attach = <<dev.groups[render.groups[2]][2]>>
              /\ K0("lightProjectionBuffer") \in DOMAIN shadow.saw
              /\ K0("lightProjectionBuffer") \in DOMAIN render.saw
              /\ shadow.saw[K0("lightProjectionBuffer")] = stamp
              /\ render.saw[K0("lightProjectionBuffer")] = stamp
              /\ render.saw[shadow.attach[1]] = stamp

\* a frame of the shadow mapping demo has just been submitted
C18_Witness ==
    /\ demo = "shadowMapping"
    /\ lastAct = "frame"
    /\ dev.cmd.stamp = stamp
    /\ Len(dev.cmd.passes) = 2
    /\ dev.cmd.passes[1].name = "shadowPass"
    /\ dev.cmd.passes[1].saw[K0("lightProjectionBuffer")] = stamp

\* the passes of the submitted command buffer that draw the full-screen quad
FinalPasses ==
    {n \in 1..Len(dev.cmd.passes) :
        dev.cmd.passes[n].name \in {"debugViewPass", "deferredRenderingPass"}}

\* the command buffer a deferred rendering frame has just submitted ends
\* with the pass that settings.mode selects
FinalPassFollowsMode ==
    (demo = "deferredRendering" /\ lastAct = "frame") =>
        /\ dev.cmd.stamp = stamp
        /\ FinalPasses = {Len(dev.cmd.passes)}
        /\ LET final == dev.cmd.passes[Len(dev.cmd.passes)]
           IN IF settings.mode = "gBuffers view"
              THEN /\ final.name = "debugViewPass"
                   /\ final.pipe = K0("gBuffersDebugViewPipeline")
                   /\ final.groups = <<K0("gBufferTexturesBindGroup")>>
              ELSE /\ final.name = "deferredRenderingPass"
                   /\ final.pipe = K0("deferredRenderingPipeline")
                   /\ final.groups = <<K0("gBufferTexturesBindGroup"),
                                        K0("lightsBufferBindGroup")>>

\* C19: in deferredRendering a frame's final pass is the G-buffer debug
\* view (debug pipeline, G-buffer bind group only) exactly when
\* settings.mode is "gBuffers view" as the callback runs, and the composite
\* pass (both bind groups) otherwise; exactly one of the two is encoded per
\* frame.  A change of the mode in the GUI submits nothing and leaves the
\* device as it is: it shows in the frames that follow.
C19_FinalPassFollowsMode ==
    [][/\ FinalPassFollowsMode'
       /\ settings'.mode # settings.mode =>
              /\ dev' = dev
              /\ lastAct' = "gui"]_vars

\* a frame has run after the GUI switched to the G-buffer view
C19_Witness ==
    /\ demo = "deferredRendering"
    /\ lastAct = "frame"
    /\ settings.mode = "gBuffers view"
    /\ dev.cmd.stamp = stamp
    /\ dev.cmd.passes[Len(dev.cmd.passes)].name = "debugViewPass"

====
